---- MODULE Spec2Model ----
(***************************************************************************)
(* WSClient (rpc/jsonrpc/client/ws_client.go): the reconnecting WebSocket  *)
(* JSON-RPC client.  One write worker (writeRoutine), one read worker      *)
(* (readRoutine) and the reconnect coordinator (reconnectRoutine) run as   *)
(* goroutines; callers run Send/Call, a consumer receives from ResponsesCh.*)
(* Every blocking channel operation, every I/O call and every deferred    *)
(* block is one step.                                                      *)
(***************************************************************************)
EXTENDS Integers, Sequences, FiniteSets, TLC

\* ---- bounds of the model ------------------------------------------------
MaxCallers == 2            \* concurrent Send/Call invocations
MaxConns == 2              \* successful redials after Start's dial
MaxFrames == 2             \* data frames the server sends in total
MaxPings == 1              \* successful keepalive pings in total
MaxReconnectAttempts == 2  \* WSOptions.MaxReconnectAttempts of this client
MaxBackoffAttempt == 65    \* largest attempt the backoff is computed for
MaxPeers == 2              \* peers of the evidence reactor
MaxLoops == 3              \* broadcast loops the reactor starts in total
MaxUpdates == 4            \* peer updates the reactor processes in total

\* ---- program constants --------------------------------------------------
ReconnectAfterCap == 1     \* make(chan error, 1)
BacklogCap == 1            \* make(chan rpctypes.RPCRequest, 1)

Callers == 1..MaxCallers
Peers == 1..MaxPeers
FrameKinds == {"ok", "malformed", "badid"}

VARIABLES
  started,          \* Start has run
  running,          \* RunState.isRunning
  ctxDone,          \* the ctx given to Start is cancelled
  conn,             \* c.conn: the current connection handle (a dial number)
  closedConns,      \* handles on which Close() was called
  wg,               \* c.wg counter
  backlog,          \* c.backlog channel buffer
  reconnectAfter,   \* c.reconnectAfter channel: number of buffered errors
  readRoutineQuit,  \* c.readRoutineQuit is closed
  reconnecting,     \* c.reconnecting
  attempt,          \* reconnect's local attempt (0 outside reconnect)
  jitter,           \* reconnect's local jitter, in nanoseconds
  backoffDuration,  \* reconnect's local backoffDuration, <<>> before it is set
  nextReqID,        \* c.nextReqID
  mtx,              \* c.mtx: 0 when free, else the caller holding it
  sentLastPingAt,   \* c.sentLastPingAt as the number of the last sent ping
  responsesClosed,  \* ResponsesCh is closed
  wpc, wreq,        \* writeRoutine: position, request in hand
  rpc, rresp,       \* readRoutine: position, response in hand
  rerr,             \* readRoutine: the error ReadMessage returned, by kind
  cpc, creq,        \* reconnectRoutine: position, request in hand
  spc,              \* a caller of Stop: position
  callers,          \* per caller: position and the request id it carries
  accepted,         \* history: ids in the order writeRoutine received them
  written,          \* history: ids in the order WriteJSON succeeded
  firstFrame,       \* history: first frame written on the current handle
  replay,           \* history: the backlog when the current handle was dialed
  replayFailed,     \* history: processBacklog failed on the current handle
  received,         \* history: signals the outer select took on this handle
  onReconnect,      \* c.onReconnect is set (not nil)
  callbacks,        \* the goroutines started by `go c.onReconnect()`
  readLog,          \* history: frames returned by ReadMessage, [conn, kind]
  delivered,        \* history: indices of readLog the consumer received
  reactorState,     \* evidence Reactor: BaseService, "new", "running", "stopped"
  reactorCtxDone,   \* evidence Reactor: the ctx given to OnStart is cancelled
  peerRoutines,     \* r.peerRoutines: per peer its closer (a loop), 0 if none
  peerWG,           \* r.peerWG counter
  loops,            \* broadcastEvidenceLoop goroutines: peer, position, closer
  updpc,            \* processPeerUpdates: position
  onStopPc,         \* OnStop: position
  lastUpdate,       \* history: per peer the status of its last processed update
  updates           \* history: number of peer updates processed

vars == <<started, running, ctxDone, conn, closedConns, wg, backlog,
          reconnectAfter, readRoutineQuit, reconnecting, attempt, jitter,
          backoffDuration, nextReqID,
          mtx, sentLastPingAt, responsesClosed, wpc, wreq, rpc, rresp, rerr,
          cpc, creq, spc, callers, accepted, written, firstFrame, replay,
          replayFailed, received, onReconnect, callbacks, readLog,
          delivered, reactorState, reactorCtxDone, peerRoutines, peerWG,
          loops, updpc, onStopPc, lastUpdate, updates>>

backoffVars == <<jitter, backoffDuration>>
hookVars == <<onReconnect, callbacks>>
reactorVars == <<reactorState, reactorCtxDone, peerRoutines, peerWG, loops,
                 updpc, onStopPc, lastUpdate, updates>>
sideVars == <<backoffVars, hookVars, reactorVars>>
connVars == <<conn, closedConns>>
chanVars == <<backlog, reconnectAfter, readRoutineQuit, responsesClosed>>
lockVars == <<reconnecting, nextReqID, mtx, sentLastPingAt>>
wVars == <<wpc, wreq>>
rVars == <<rpc, rresp, rerr>>
cVars == <<cpc, creq, attempt>>
runVars == <<started, running, ctxDone, spc>>
dialHist == <<replay, replayFailed, received>>
writeHist == <<accepted, written, firstFrame, dialHist>>
readHist == <<readLog, delivered>>

NoFrame == [kind |-> "none", id |-> 0]
ReqFrame(id) == [kind |-> "req", id |-> id]
PingFrame == [kind |-> "ping", id |-> 0]
CloseFrame == [kind |-> "close", id |-> 0]

\* The first frame of the current handle after frame f is written on it.
NoteFrame(f) == IF firstFrame = NoFrame THEN f ELSE firstFrame

\* NewWSWithOptions: nothing runs, no channel exists yet.
InitClient ==
  /\ started = FALSE /\ running = FALSE /\ ctxDone = FALSE
  /\ conn = 0 /\ closedConns = {}
  /\ wg = 0
  /\ backlog = <<>> /\ reconnectAfter = 0
  /\ readRoutineQuit = FALSE
  /\ reconnecting = FALSE
  /\ nextReqID = 0 /\ mtx = 0 /\ sentLastPingAt = 0
  /\ responsesClosed = FALSE
  /\ wpc = "done" /\ wreq = <<>>
  /\ rpc = "done" /\ rresp = <<>> /\ rerr = "none"
  /\ cpc = "none" /\ creq = <<>>
  /\ spc = "idle"
  /\ callers = [p \in Callers |-> [pc |-> "idle", id |-> 0]]
  /\ accepted = <<>> /\ written = <<>>
  /\ firstFrame = NoFrame /\ replay = <<>> /\ replayFailed = FALSE
  /\ received = 0
  /\ callbacks = <<>>
  /\ readLog = <<>> /\ delivered = <<>>

\* NewReactor: the map of peer routines is empty, nothing runs.
InitPeers ==
  /\ reactorState = "new" /\ reactorCtxDone = FALSE
  /\ peerRoutines = [p \in Peers |-> 0]
  /\ peerWG = 0
  /\ loops = <<>>
  /\ updpc = "none" /\ onStopPc = "none"
  /\ lastUpdate = [p \in Peers |-> "none"]
  /\ updates = 0

\* reconnect has not run: its locals have no value yet.  OnReconnect was not
\* called: c.onReconnect is nil.
Init ==
  /\ InitClient
  /\ InitPeers
  /\ attempt = 0 /\ jitter = 0 /\ backoffDuration = <<>>
  /\ onReconnect = FALSE

\* A nextRequestID that does not take c.mtx.
MtxNotTaken == TRUE

\* c.mtx is free.
MtxFree == mtx = 0

\* A write or read on the handle can succeed only while nobody closed it.
ConnOpen == conn \notin closedConns

\* startReadWriteRoutines: wg.Add(2), a fresh readRoutineQuit, both workers.
startReadWriteRoutines ==
  /\ wg' = wg + 2
  /\ readRoutineQuit' = FALSE
  /\ wpc' = "select" /\ rpc' = "read"

\* Start: RunState.Start, dial, the channels, the workers, the coordinator.
Start ==
  /\ ~started
  /\ started' = TRUE /\ running' = TRUE
  /\ conn' = 1
  /\ startReadWriteRoutines
  /\ cpc' = "select"
  /\ UNCHANGED <<ctxDone, closedConns, backlog, reconnectAfter, lockVars,
                 responsesClosed, wreq, rresp, rerr, creq, attempt, spc,
                 callers, writeHist, readHist>>
  /\ UNCHANGED sideVars

\* The caller of Start cancels its context.
Cancel ==
  /\ started /\ ~ctxDone
  /\ ctxDone' = TRUE
  /\ UNCHANGED <<started, running, spc, connVars, wg, chanVars, lockVars,
                 wVars, rVars, cVars, callers, writeHist, readHist>>
  /\ UNCHANGED sideVars

\* ---- callers: Call (nextRequestID, then Send) and Send -------------------

SetCaller(p, pc, id) == callers' = [callers EXCEPT ![p] = [pc |-> pc, id |-> id]]

callerFrame == <<sideVars, runVars, connVars, wg, chanVars, wVars, rVars,
                 cVars, writeHist, readHist>>

\* nextRequestID, c.mtx.Lock().
CallLock(p) ==
  /\ started
  /\ callers[p].pc = "idle"
  /\ MtxFree
  /\ mtx' = p
  /\ SetCaller(p, "locked", callers[p].id)
  /\ UNCHANGED <<callerFrame, reconnecting, nextReqID, sentLastPingAt>>

\* nextRequestID, id := c.nextReqID.
CallRead(p) ==
  /\ callers[p].pc = "locked"
  /\ SetCaller(p, "read", nextReqID)
  /\ UNCHANGED <<callerFrame, lockVars>>

\* nextRequestID, c.nextReqID++ and c.mtx.Unlock(); Call then enters Send.
CallIncr(p) ==
  /\ callers[p].pc = "read"
  /\ nextReqID' = nextReqID + 1
  /\ mtx' = 0
  /\ SetCaller(p, "send", callers[p].id)
  /\ UNCHANGED <<callerFrame, reconnecting, sentLastPingAt>>

\* Send called directly with a request the caller built (id p).  The callers
\* are interchangeable, so they are numbered in the order they call Send.
SendStart(p) ==
  /\ started
  /\ callers[p].pc = "idle"
  /\ \A q \in Callers : q < p => callers[q].pc # "idle"
  /\ SetCaller(p, "send", p)
  /\ UNCHANGED <<callerFrame, lockVars>>

\* Send, case <-ctx.Done(): the caller's context is cancelled, return ctx.Err().
SendCancel(p) ==
  /\ callers[p].pc = "send"
  /\ SetCaller(p, "err", callers[p].id)
  /\ UNCHANGED <<callerFrame, lockVars>>

\* ---- writeRoutine --------------------------------------------------------

wFrame == <<sideVars, runVars, lockVars, rVars, cVars, readHist>>

\* A Send that hands the request over and then reports the context's error.
WRecvThenCtxErr(p) ==
  /\ wpc = "select"
  /\ callers[p].pc = "send"
  /\ wpc' = "write" /\ wreq' = <<p>>
  /\ SetCaller(p, "err", callers[p].id)
  /\ accepted' = Append(accepted, p)
  /\ UNCHANGED <<runVars, lockVars, rVars, cVars, readHist, connVars, wg,
                 chanVars, written, firstFrame, dialHist>>
  /\ UNCHANGED sideVars

\* case request := <-c.send, the other side being Send's case c.send <- request
\* (the channel is unbuffered): Send returns nil.
WRecv(p) ==
  /\ wpc = "select"
  /\ callers[p].pc = "send"
  /\ wpc' = "write" /\ wreq' = <<p>>
  /\ SetCaller(p, "ok", callers[p].id)
  /\ accepted' = Append(accepted, p)
  /\ UNCHANGED <<wFrame, connVars, wg, chanVars, written, firstFrame, dialHist>>

\* c.conn.WriteJSON(request) returns nil.
WWriteOk ==
  /\ wpc = "write"
  /\ ConnOpen
  /\ written' = Append(written, wreq[1])
  /\ firstFrame' = NoteFrame(ReqFrame(wreq[1]))
  /\ wreq' = <<>> /\ wpc' = "select"
  /\ UNCHANGED <<wFrame, connVars, wg, chanVars, callers, accepted, dialHist>>

\* c.conn.WriteJSON(request) returns an error.
WWriteFail ==
  /\ wpc = "write"
  /\ wpc' = "emit"
  /\ UNCHANGED <<wFrame, wreq, connVars, wg, chanVars, callers, writeHist>>

\* c.reconnectAfter <- err, after a failed request write.
WEmit ==
  /\ wpc = "emit"
  /\ reconnectAfter < ReconnectAfterCap
  /\ reconnectAfter' = reconnectAfter + 1
  /\ wpc' = "push"
  /\ UNCHANGED <<wFrame, wreq, connVars, wg, backlog, readRoutineQuit,
                 responsesClosed, callers, writeHist>>

\* A write worker that returns without saving the failed request.
WPushDropped ==
  /\ wpc = "push"
  /\ wreq' = <<>> /\ wpc' = "defer"
  /\ UNCHANGED <<runVars, lockVars, rVars, cVars, readHist, connVars, wg,
                 chanVars, callers, writeHist>>
  /\ UNCHANGED sideVars

\* c.backlog <- request; return.
WPush ==
  /\ wpc = "push"
  /\ Len(backlog) < BacklogCap
  /\ backlog' = Append(backlog, wreq[1])
  /\ wreq' = <<>> /\ wpc' = "defer"
  /\ UNCHANGED <<wFrame, connVars, wg, reconnectAfter, readRoutineQuit,
                 responsesClosed, callers, writeHist>>

\* case <-ticker.C: the ping is written; c.sentLastPingAt = time.Now().
WPingOk ==
  /\ wpc = "select"
  /\ ConnOpen
  /\ MtxFree
  /\ sentLastPingAt < MaxPings
  /\ sentLastPingAt' = sentLastPingAt + 1
  /\ firstFrame' = NoteFrame(PingFrame)
  /\ UNCHANGED <<runVars, reconnecting, nextReqID, mtx, rVars, cVars, readHist,
                 wVars, connVars, wg, chanVars, callers, accepted, written,
                 dialHist>>
  /\ UNCHANGED sideVars

\* A keepalive that records the time of the ping before it checks the write.
WPingFailStamped ==
  /\ wpc = "select"
  /\ wpc' = "pingEmit"
  /\ sentLastPingAt' = sentLastPingAt + 1
  /\ UNCHANGED <<sideVars, runVars, reconnecting, nextReqID, mtx, rVars,
                 cVars, readHist, wreq, connVars, wg, chanVars, callers,
                 writeHist>>

\* case <-ticker.C: writing the ping fails.
WPingFail ==
  /\ wpc = "select"
  /\ wpc' = "pingEmit"
  /\ UNCHANGED <<wFrame, wreq, connVars, wg, chanVars, callers, writeHist>>

\* c.reconnectAfter <- err, after a failed ping; return.
WPingEmit ==
  /\ wpc = "pingEmit"
  /\ reconnectAfter < ReconnectAfterCap
  /\ reconnectAfter' = reconnectAfter + 1
  /\ wpc' = "defer"
  /\ UNCHANGED <<wFrame, wreq, connVars, wg, backlog, readRoutineQuit,
                 responsesClosed, callers, writeHist>>

\* case <-c.readRoutineQuit: return.
WQuit ==
  /\ wpc = "select"
  /\ readRoutineQuit
  /\ wpc' = "defer"
  /\ UNCHANGED <<wFrame, wreq, connVars, wg, chanVars, callers, writeHist>>

\* case <-ctx.Done(): best-effort close frame, return.
WCtxDone ==
  /\ wpc = "select"
  /\ ctxDone
  /\ wpc' = "defer"
  /\ \/ ConnOpen /\ firstFrame' = NoteFrame(CloseFrame)
     \/ UNCHANGED firstFrame
  /\ UNCHANGED <<wFrame, wreq, connVars, wg, chanVars, callers, accepted,
                 written, dialHist>>

\* A deferred block that forgets c.conn.Close().
WDeferNoClose ==
  /\ wpc = "defer"
  /\ wg' = wg - 1
  /\ wpc' = "done"
  /\ UNCHANGED <<runVars, lockVars, rVars, cVars, readHist, wreq, connVars,
                 chanVars, callers, writeHist>>
  /\ UNCHANGED sideVars

\* The deferred block: ticker.Stop(), c.conn.Close(), c.wg.Done().
WDefer ==
  /\ wpc = "defer"
  /\ closedConns' = closedConns \cup {conn}
  /\ wg' = wg - 1
  /\ wpc' = "done"
  /\ UNCHANGED <<wFrame, wreq, conn, chanVars, callers, writeHist>>

\* ---- readRoutine ---------------------------------------------------------

rFrame == <<sideVars, runVars, lockVars, wVars, cVars, callers,
            writeHist>>

\* A readRoutine without the two continue statements: every frame goes on to
\* the delivery select.
RReadFrameUnchecked(k) ==
  /\ rpc = "read"
  /\ ConnOpen
  /\ Len(readLog) < MaxFrames
  /\ readLog' = Append(readLog, [conn |-> conn, kind |-> k])
  /\ rpc' = "deliver" /\ rresp' = <<Len(readLog) + 1>>
  /\ UNCHANGED rerr
  /\ UNCHANGED <<runVars, lockVars, wVars, cVars, callers, writeHist,
                 connVars, wg, chanVars, delivered>>
  /\ UNCHANGED sideVars

\* A readRoutine for which a frame that fails a check is a read failure:
\* it closes readRoutineQuit and goes on to report.
RReadFrameFatal(k) ==
  /\ rpc = "read"
  /\ ConnOpen
  /\ Len(readLog) < MaxFrames
  /\ readLog' = Append(readLog, [conn |-> conn, kind |-> k])
  /\ IF k = "ok"
       THEN rpc' = "deliver" /\ rresp' = <<Len(readLog) + 1>>
            /\ UNCHANGED readRoutineQuit
       ELSE rpc' = "emit" /\ readRoutineQuit' = TRUE /\ UNCHANGED rresp
  /\ UNCHANGED rerr
  /\ UNCHANGED <<rFrame, connVars, wg, backlog, reconnectAfter,
                 responsesClosed, delivered>>

\* ReadMessage returns a data frame; json.Unmarshal and validateResponseID
\* decide whether it is skipped (continue) or goes on to the delivery select.
RReadFrame(k) ==
  /\ rpc = "read"
  /\ ConnOpen
  /\ Len(readLog) < MaxFrames
  /\ readLog' = Append(readLog, [conn |-> conn, kind |-> k])
  /\ IF k = "ok"
       THEN rpc' = "deliver" /\ rresp' = <<Len(readLog) + 1>>
       ELSE UNCHANGED <<rpc, rresp>>
  /\ UNCHANGED rerr
  /\ UNCHANGED <<rFrame, connVars, wg, chanVars, delivered>>

\* The errors of ReadMessage for which IsUnexpectedCloseError is false: a
\* close frame with the normal-closure code, and every error that is no
\* close frame at all (a network error, which a read on a closed handle is
\* too, and the read deadline).
QuietKinds == {"normal", "network", "deadline"}

\* ReadMessage returns an error of kind k for which IsUnexpectedCloseError is
\* false: return.  On a closed handle the error is the network error.
RReadQuiet(k) ==
  /\ rpc = "read"
  /\ k # "network" => ConnOpen
  /\ rpc' = "defer" /\ rerr' = k
  /\ UNCHANGED <<rFrame, rresp, connVars, wg, chanVars, readHist>>

\* ReadMessage returns a close frame other than normal closure:
\* close(c.readRoutineQuit).
RReadUnexpected ==
  /\ rpc = "read"
  /\ ConnOpen
  /\ readRoutineQuit' = TRUE
  /\ rpc' = "emit" /\ rerr' = "abnormal"
  /\ UNCHANGED <<rFrame, rresp, connVars, wg, backlog, reconnectAfter,
                 responsesClosed, readHist>>

\* c.reconnectAfter <- err; return.
REmit ==
  /\ rpc = "emit"
  /\ reconnectAfter < ReconnectAfterCap
  /\ reconnectAfter' = reconnectAfter + 1
  /\ rpc' = "defer"
  /\ UNCHANGED <<rFrame, rresp, rerr, connVars, wg, backlog, readRoutineQuit,
                 responsesClosed, readHist>>

\* case c.ResponsesCh <- response, the consumer receiving.
RDeliver ==
  /\ rpc = "deliver"
  /\ ~responsesClosed
  /\ delivered' = Append(delivered, rresp[1])
  /\ rresp' = <<>> /\ rpc' = "read"
  /\ UNCHANGED rerr
  /\ UNCHANGED <<rFrame, connVars, wg, chanVars, readLog>>

\* case c.ResponsesCh <- response on the closed channel: the send panics.
RDeliverClosed ==
  /\ rpc = "deliver"
  /\ responsesClosed
  /\ rpc' = "panic"
  /\ UNCHANGED <<rFrame, rresp, rerr, connVars, wg, chanVars, readHist>>

\* case <-ctx.Done() of the delivery select: return, the response is dropped.
RCtxDone ==
  /\ rpc = "deliver"
  /\ ctxDone
  /\ rresp' = <<>> /\ rpc' = "defer"
  /\ UNCHANGED rerr
  /\ UNCHANGED <<rFrame, connVars, wg, chanVars, readHist>>

\* The deferred block: c.conn.Close(), c.wg.Done().
RDefer ==
  /\ rpc = "defer"
  /\ closedConns' = closedConns \cup {conn}
  /\ wg' = wg - 1
  /\ rpc' = "done" /\ rerr' = "none"
  /\ UNCHANGED <<rFrame, rresp, conn, chanVars, readHist>>

\* ---- reconnectRoutine, reconnect, processBacklog -------------------------

cFrame == <<sideVars, started, ctxDone, spc, wreq, rresp, rerr, callers,
            accepted, readHist>>

\* A coordinator that does not join the workers before it goes on.
WgWaitSkipped == TRUE

\* c.wg.Wait() returns.
WgWait == wg = 0

\* case <-ctx.Done() of the outer select: return.
CCtxDone ==
  /\ cpc = "select"
  /\ ctxDone
  /\ cpc' = "done"
  /\ UNCHANGED <<cFrame, running, connVars, wg, chanVars, lockVars, wpc, rpc,
                 creq, attempt, written, firstFrame, dialHist>>

\* case originalError := <-c.reconnectAfter.
CRecv ==
  /\ cpc = "select"
  /\ reconnectAfter > 0
  /\ reconnectAfter' = reconnectAfter - 1
  /\ received' = received + 1
  /\ cpc' = "wait"
  /\ UNCHANGED <<cFrame, running, connVars, wg, backlog, readRoutineQuit,
                 responsesClosed, lockVars, wpc, rpc, creq, attempt, written,
                 firstFrame, replay, replayFailed>>

\* c.wg.Wait(): wait until writeRoutine and readRoutine finish.
CWait ==
  /\ cpc = "wait"
  /\ WgWait
  /\ cpc' = "reconnect"
  /\ UNCHANGED <<cFrame, running, connVars, wg, chanVars, lockVars, wpc, rpc,
                 creq, attempt, written, firstFrame, dialHist>>

\* reconnect: attempt := 0, c.reconnecting = true under c.mtx.
CReconnect ==
  /\ cpc = "reconnect"
  /\ MtxFree
  /\ attempt' = 0
  /\ reconnecting' = TRUE
  /\ cpc' = "backoff"
  /\ UNCHANGED <<cFrame, running, connVars, wg, chanVars, nextReqID, mtx,
                 sentLastPingAt, wpc, rpc, creq, written, firstFrame, dialHist>>

\* reconnect, case <-timer.C: the backoff has elapsed.
CBackoff ==
  /\ cpc = "backoff"
  /\ cpc' = "dial"
  /\ UNCHANGED <<cFrame, running, connVars, wg, chanVars, lockVars, wpc, rpc,
                 creq, attempt, written, firstFrame, dialHist>>

\* A reconnect whose return on cancellation leaves c.reconnecting set (no
\* deferred reset).
CBackoffCancelNoDefer ==
  /\ cpc = "backoff"
  /\ ctxDone
  /\ attempt' = 0
  /\ cpc' = "drain"
  /\ UNCHANGED <<cFrame, running, connVars, wg, chanVars, lockVars, wpc, rpc,
                 creq, written, firstFrame, dialHist>>

\* reconnect, case <-ctx.Done(): return nil (the deferred block clears
\* c.reconnecting); reconnectRoutine goes on to the drain loop.
CBackoffCancel ==
  /\ cpc = "backoff"
  /\ ctxDone
  /\ MtxFree
  /\ reconnecting' = FALSE
  /\ attempt' = 0
  /\ cpc' = "drain"
  /\ UNCHANGED <<cFrame, running, connVars, wg, chanVars, nextReqID, mtx,
                 sentLastPingAt, wpc, rpc, creq, written, firstFrame, dialHist>>

\* reconnect, c.dial() succeeds: c.conn is the new handle, return nil.
CDialOk ==
  /\ cpc = "dial"
  /\ ~onReconnect
  /\ conn - 1 < MaxConns
  /\ MtxFree
  /\ conn' = conn + 1
  /\ reconnecting' = FALSE
  /\ firstFrame' = NoFrame
  /\ replay' = backlog
  /\ replayFailed' = FALSE
  /\ received' = 0
  /\ attempt' = 0
  /\ cpc' = "drain"
  /\ UNCHANGED <<cFrame, running, closedConns, wg, chanVars, nextReqID, mtx,
                 sentLastPingAt, wpc, rpc, creq, written>>

\* reconnect with c.onReconnect set, c.dial() succeeds: c.conn is the new
\* handle and `go c.onReconnect()` starts the callback's goroutine; reconnect
\* is at its `return nil`, its deferred block not yet run.
CDialOkHook ==
  /\ cpc = "dial"
  /\ onReconnect
  /\ conn - 1 < MaxConns
  /\ conn' = conn + 1
  /\ callbacks' = Append(callbacks, [pc |-> "spawned",
                                     sawReconnecting |-> FALSE])
  /\ firstFrame' = NoFrame
  /\ replay' = backlog
  /\ replayFailed' = FALSE
  /\ received' = 0
  /\ cpc' = "return"
  /\ UNCHANGED <<backoffVars, onReconnect, reactorVars, started, ctxDone, spc,
                 wreq, rresp,
                 rerr, callers, accepted, readHist, running, closedConns, wg,
                 chanVars, lockVars, wpc, rpc, creq, attempt, written>>

\* reconnect, return nil: the deferred block clears c.reconnecting under
\* c.mtx; reconnectRoutine goes on to the drain loop.
CReturn ==
  /\ cpc = "return"
  /\ MtxFree
  /\ reconnecting' = FALSE
  /\ attempt' = 0
  /\ cpc' = "drain"
  /\ UNCHANGED <<cFrame, running, connVars, wg, chanVars, nextReqID, mtx,
                 sentLastPingAt, wpc, rpc, creq, written, firstFrame, dialHist>>

\* The callback's goroutine is scheduled and the callback begins; what
\* c.reconnecting holds at that moment is recorded.
CbRun(i) ==
  /\ callbacks[i].pc = "spawned"
  /\ callbacks' = [callbacks EXCEPT ![i] =
                     [pc |-> "running", sawReconnecting |-> reconnecting]]
  /\ UNCHANGED <<backoffVars, onReconnect, reactorVars, runVars, connVars, wg,
                 chanVars,
                 lockVars, wVars, rVars, cVars, callers, writeHist, readHist>>

\* The callback returns (one that never returns does not take this step).
CbReturn(i) ==
  /\ callbacks[i].pc = "running"
  /\ callbacks' = [callbacks EXCEPT ![i].pc = "returned"]
  /\ UNCHANGED <<backoffVars, onReconnect, reactorVars, runVars, connVars, wg,
                 chanVars,
                 lockVars, wVars, rVars, cVars, callers, writeHist, readHist>>

\* A reconnect that gives up when attempt reaches maxReconnectAttempts.
CDialFailEarly ==
  /\ cpc = "dial"
  /\ attempt' = attempt + 1
  /\ IF attempt + 1 >= MaxReconnectAttempts
       THEN MtxFree /\ reconnecting' = FALSE /\ cpc' = "stop"
       ELSE UNCHANGED reconnecting /\ cpc' = "backoff"
  /\ UNCHANGED <<cFrame, running, connVars, wg, chanVars, nextReqID, mtx,
                 sentLastPingAt, wpc, rpc, creq, written, firstFrame, dialHist>>

\* reconnect, c.dial() fails: attempt++, and past maxReconnectAttempts the
\* error is returned and reconnectRoutine calls c.Stop().
CDialFail ==
  /\ cpc = "dial"
  /\ attempt' = attempt + 1
  /\ IF attempt + 1 > MaxReconnectAttempts
       THEN MtxFree /\ reconnecting' = FALSE /\ cpc' = "stop"
       ELSE UNCHANGED reconnecting /\ cpc' = "backoff"
  /\ UNCHANGED <<cFrame, running, connVars, wg, chanVars, nextReqID, mtx,
                 sentLastPingAt, wpc, rpc, creq, written, firstFrame, dialHist>>

\* c.Stop() in reconnectRoutine: RunState.Stop.
CStop ==
  /\ cpc = "stop"
  /\ IF running
       THEN running' = FALSE /\ cpc' = "stopWait"
       ELSE UNCHANGED running /\ cpc' = "done"
  /\ UNCHANGED <<cFrame, connVars, wg, chanVars, lockVars, wpc, rpc, creq,
                 attempt, written, firstFrame, dialHist>>

\* c.Stop() in reconnectRoutine: c.wg.Wait(), close(c.ResponsesCh); return.
CStopClose ==
  /\ cpc = "stopWait"
  /\ WgWait
  /\ responsesClosed' = TRUE
  /\ cpc' = "done"
  /\ UNCHANGED <<cFrame, running, connVars, wg, backlog, reconnectAfter,
                 readRoutineQuit, lockVars, wpc, rpc, creq, attempt, written,
                 firstFrame, dialHist>>

\* The drain loop, case <-c.reconnectAfter.
CDrainTake ==
  /\ cpc = "drain"
  /\ reconnectAfter > 0
  /\ reconnectAfter' = reconnectAfter - 1
  /\ UNCHANGED <<cFrame, running, connVars, wg, backlog, readRoutineQuit,
                 responsesClosed, lockVars, wpc, rpc, cVars, written,
                 firstFrame, dialHist>>

\* The drain loop, case <-ctx.Done(): return.
CDrainCtx ==
  /\ cpc = "drain"
  /\ ctxDone
  /\ cpc' = "done"
  /\ UNCHANGED <<cFrame, running, connVars, wg, chanVars, lockVars, wpc, rpc,
                 creq, attempt, written, firstFrame, dialHist>>

\* A reconnectRoutine that starts the workers before it replays the backlog.
CDrainThenStart ==
  /\ cpc = "drain"
  /\ reconnectAfter = 0
  /\ ~ctxDone
  /\ cpc' = "start"
  /\ UNCHANGED <<cFrame, running, connVars, wg, chanVars, lockVars, wpc, rpc,
                 creq, attempt, written, firstFrame, dialHist>>

\* A drain loop that breaks out while a signal is still queued.
CDrainDefaultEarly ==
  /\ cpc = "drain"
  /\ ~ctxDone
  /\ cpc' = "backlog"
  /\ UNCHANGED <<cFrame, running, connVars, wg, chanVars, lockVars, wpc, rpc,
                 creq, attempt, written, firstFrame, dialHist>>

\* The drain loop, default: break LOOP.
CDrainDefault ==
  /\ cpc = "drain"
  /\ reconnectAfter = 0
  /\ ~ctxDone
  /\ cpc' = "backlog"
  /\ UNCHANGED <<cFrame, running, connVars, wg, chanVars, lockVars, wpc, rpc,
                 creq, attempt, written, firstFrame, dialHist>>

\* A processBacklog that reads the request without taking it off the channel.
CBacklogPeek ==
  /\ cpc = "backlog"
  /\ backlog # <<>>
  /\ creq' = <<Head(backlog)>>
  /\ cpc' = "pbWrite"
  /\ UNCHANGED <<cFrame, running, connVars, wg, chanVars, lockVars, wpc, rpc,
                 attempt, written, firstFrame, dialHist>>

\* processBacklog, case request := <-c.backlog.
CBacklogTake ==
  /\ cpc = "backlog"
  /\ backlog # <<>>
  /\ creq' = <<Head(backlog)>>
  /\ backlog' = Tail(backlog)
  /\ cpc' = "pbWrite"
  /\ UNCHANGED <<cFrame, running, connVars, wg, reconnectAfter,
                 readRoutineQuit, responsesClosed, lockVars, wpc, rpc, attempt,
                 written, firstFrame, dialHist>>

\* processBacklog, default: return nil.
CBacklogEmpty ==
  /\ cpc = "backlog"
  /\ backlog = <<>>
  /\ cpc' = "start"
  /\ UNCHANGED <<cFrame, running, connVars, wg, chanVars, lockVars, wpc, rpc,
                 creq, attempt, written, firstFrame, dialHist>>

\* processBacklog, c.conn.WriteJSON(request) returns nil: return nil.
CPbWriteOk ==
  /\ cpc = "pbWrite"
  /\ ConnOpen
  /\ written' = Append(written, creq[1])
  /\ firstFrame' = NoteFrame(ReqFrame(creq[1]))
  /\ creq' = <<>>
  /\ cpc' = "start"
  /\ UNCHANGED <<cFrame, running, connVars, wg, chanVars, lockVars, wpc, rpc,
                 attempt, dialHist>>

\* processBacklog, c.conn.WriteJSON(request) returns an error.
CPbWriteFail ==
  /\ cpc = "pbWrite"
  /\ cpc' = "pbEmit"
  /\ replayFailed' = TRUE
  /\ UNCHANGED <<cFrame, running, connVars, wg, chanVars, lockVars, wpc, rpc,
                 creq, attempt, written, firstFrame, replay, received>>

\* A processBacklog that does not send its error on c.reconnectAfter.
CPbEmitSkipped ==
  /\ cpc = "pbEmit"
  /\ cpc' = "pbRequeue"
  /\ UNCHANGED <<cFrame, running, connVars, wg, chanVars, lockVars, wpc, rpc,
                 creq, attempt, written, firstFrame, dialHist>>

\* processBacklog, c.reconnectAfter <- err.
CPbEmit ==
  /\ cpc = "pbEmit"
  /\ reconnectAfter < ReconnectAfterCap
  /\ reconnectAfter' = reconnectAfter + 1
  /\ cpc' = "pbRequeue"
  /\ UNCHANGED <<cFrame, running, connVars, wg, backlog, readRoutineQuit,
                 responsesClosed, lockVars, wpc, rpc, creq, attempt, written,
                 firstFrame, dialHist>>

\* A reconnectRoutine that ignores processBacklog's error and starts the
\* workers all the same.
CPbRequeueThenStart ==
  /\ cpc = "pbRequeue"
  /\ Len(backlog) < BacklogCap
  /\ backlog' = Append(backlog, creq[1])
  /\ creq' = <<>>
  /\ cpc' = "start"
  /\ UNCHANGED <<cFrame, running, connVars, wg, reconnectAfter,
                 readRoutineQuit, responsesClosed, lockVars, wpc, rpc, attempt,
                 written, firstFrame, dialHist>>

\* processBacklog, c.backlog <- request; return err: reconnectRoutine skips
\* startReadWriteRoutines and loops.
CPbRequeue ==
  /\ cpc = "pbRequeue"
  /\ Len(backlog) < BacklogCap
  /\ backlog' = Append(backlog, creq[1])
  /\ creq' = <<>>
  /\ cpc' = "select"
  /\ UNCHANGED <<cFrame, running, connVars, wg, reconnectAfter,
                 readRoutineQuit, responsesClosed, lockVars, wpc, rpc, attempt,
                 written, firstFrame, dialHist>>

\* err == nil: c.startReadWriteRoutines(ctx); back to the outer select.
CStart ==
  /\ cpc = "start"
  /\ startReadWriteRoutines
  /\ cpc' = "select"
  /\ UNCHANGED <<cFrame, running, connVars, backlog, reconnectAfter,
                 responsesClosed, lockVars, creq, attempt, written, firstFrame,
                 dialHist>>

\* ---- Stop, called by the user --------------------------------------------

sFrame == <<sideVars, started, ctxDone, connVars, wg, lockVars, wVars,
            rVars, cVars, callers, writeHist, readHist>>

\* Stop: RunState.Stop (an error when the client is not running).
SStop ==
  /\ started
  /\ spc = "idle"
  /\ IF running
       THEN running' = FALSE /\ spc' = "wait"
       ELSE UNCHANGED running /\ spc' = "done"
  /\ UNCHANGED <<sFrame, chanVars>>

\* Stop: c.wg.Wait() returns, close(c.ResponsesCh).
SClose ==
  /\ spc = "wait"
  /\ WgWait
  /\ responsesClosed' = TRUE
  /\ spc' = "done"
  /\ UNCHANGED <<sFrame, running, backlog, reconnectAfter, readRoutineQuit>>

\* ---- the system ----------------------------------------------------------

WriteWorker ==
  \/ \E p \in Callers : WRecv(p)
  \/ WWriteOk \/ WWriteFail \/ WEmit \/ WPush
  \/ WPingOk \/ WPingFail \/ WPingEmit
  \/ WQuit \/ WCtxDone \/ WDefer

\* readRoutine on a server that sends no data frame.
ReadErrors ==
  \/ \E k \in QuietKinds : RReadQuiet(k)
  \/ RReadUnexpected \/ REmit \/ RDefer

\* readRoutine's handling of data frames.
ReadFrames ==
  \/ \E k \in FrameKinds : RReadFrame(k)
  \/ RDeliver \/ RDeliverClosed \/ RCtxDone

Coordinator ==
  \/ CCtxDone \/ CRecv \/ CWait \/ CReconnect
  \/ CBackoff \/ CBackoffCancel \/ CDialOk \/ CDialFail
  \/ CStop \/ CStopClose
  \/ CDrainTake \/ CDrainCtx \/ CDrainDefault
  \/ CBacklogTake \/ CBacklogEmpty
  \/ CPbWriteOk \/ CPbWriteFail \/ CPbEmit \/ CPbRequeue
  \/ CStart

\* The request path: callers of Send, the write worker with its keepalive,
\* the read worker failing, the coordinator; the server sends no data frame.
Next ==
  \/ Start \/ Cancel
  \/ \E p \in Callers : SendStart(p) \/ SendCancel(p)
  \/ WriteWorker \/ ReadErrors \/ Coordinator

Spec == Init /\ [][Next]_vars

\* The response path: the read worker reading and delivering data frames, the
\* keepalive failing, the coordinator, a user calling Stop; no request is sent.
NextRead ==
  \/ Start \/ Cancel
  \/ WPingFail \/ WPingEmit \/ WQuit \/ WCtxDone \/ WDefer
  \/ ReadErrors \/ ReadFrames
  \/ CCtxDone \/ CRecv \/ CWait \/ CReconnect
  \/ CBackoff \/ CBackoffCancel \/ CDialOk \/ CDialFail
  \/ CStop \/ CStopClose
  \/ CDrainTake \/ CDrainCtx \/ CDrainDefault
  \/ CBacklogEmpty \/ CStart
  \/ SStop \/ SClose

SpecRead == Init /\ [][NextRead]_vars

\* Identifier allocation: concurrent callers of Call, the write worker taking
\* and writing their requests and sending pings (which takes c.mtx too), and
\* the shutdown by cancellation.
NextCall ==
  \/ Start \/ Cancel
  \/ \E p \in Callers : CallLock(p) \/ CallRead(p) \/ CallIncr(p) \/ SendCancel(p)
  \/ \E p \in Callers : WRecv(p)
  \/ WWriteOk \/ WPingOk \/ WCtxDone \/ WDefer
  \/ (\E k \in QuietKinds : RReadQuiet(k)) \/ RDefer
  \/ CCtxDone

SpecCall == Init /\ [][NextCall]_vars

\* The steps a goroutine takes by itself once it is scheduled: a write call
\* returns, a channel operation that is ready completes, a deferred block
\* runs; for the reader also a read on a handle that was closed returns and
\* the consumer receives.  Taking a request, the keepalive tick and what the
\* server sends are not among them.
WriterStep ==
  \/ WWriteOk \/ WWriteFail \/ WEmit \/ WPush \/ WPingEmit
  \/ WQuit \/ WCtxDone \/ WDefer

ReaderStep ==
  \/ (RReadQuiet("network") /\ ~ConnOpen)
  \/ REmit \/ RDeliver \/ RCtxDone \/ RDefer

\* What the Go scheduler guarantees: each of the three goroutines, when it
\* can take a step, eventually takes one (the backoff timer fires, a dial
\* returns).  Nothing is assumed about the server, the callers or Stop.
Fairness ==
  /\ WF_vars(WriterStep)
  /\ WF_vars(ReaderStep)
  /\ WF_vars(Coordinator)

\* The request path for recovery: callers that wait for their Send, a
\* keepalive that fails when it is sent, failing reads and writes, the
\* coordinator, cancellation.
NextLive ==
  \/ Start \/ Cancel
  \/ \E p \in Callers : SendStart(p) \/ WRecv(p)
  \/ WWriteOk \/ WWriteFail \/ WEmit \/ WPush
  \/ WPingFail \/ WPingEmit
  \/ WQuit \/ WCtxDone \/ WDefer
  \/ ReadErrors \/ Coordinator

\* The same under the scheduler's fairness.
LiveSpec == Init /\ [][NextLive]_vars /\ Fairness

\* OnReconnect(cb) was called before Start: c.onReconnect is set.
InitHook ==
  /\ InitClient
  /\ InitPeers
  /\ attempt = 0 /\ jitter = 0 /\ backoffDuration = <<>>
  /\ onReconnect = TRUE

\* The coordinator with the reconnect callback set, no request in flight.
CoordinatorHook ==
  \/ CCtxDone \/ CRecv \/ CWait \/ CReconnect
  \/ CBackoff \/ CBackoffCancel \/ CDialOkHook \/ CReturn \/ CDialFail
  \/ CStop \/ CStopClose
  \/ CDrainCtx \/ CDrainDefault
  \/ CBacklogEmpty \/ CStart

\* The reconnect callback: a keepalive that fails, the read worker returning
\* once the handle is closed, the coordinator redialing, and the goroutines
\* of the callback, each of which may begin at any time and may never return.
NextHook ==
  \/ Start \/ Cancel
  \/ WPingFail \/ WPingEmit \/ WCtxDone \/ WDefer
  \/ (RReadQuiet("network") /\ ~ConnOpen) \/ RDefer
  \/ CoordinatorHook
  \/ \E i \in 1..Len(callbacks) : CbRun(i) \/ CbReturn(i)

SpecHook == InitHook /\ [][NextHook]_vars

\* ---- reconnect's backoff: time.Duration arithmetic -----------------------
\* Numbers are kept as six 16-bit limbs, the least significant first, which
\* is wide enough for the exact value of the backoff of every attempt up to
\* MaxBackoffAttempt.  A time.Duration is an int64: the four low limbs in
\* two's complement, the two high limbs zero.

Limb == 65536
Int64Limbs == 4
WideLimbs == 6

\* time.Second, in nanoseconds.
Second == 1000000000

\* mrand.Float64() is in [0, 1): the product with float64(time.Second) is
\* below 1e9 and time.Duration() truncates it.
JitterSamples == {0, 1, Second - 1}

\* A value below 2^32 as limbs.
Limbs(v) == <<v % Limb, v \div Limb, 0, 0, 0, 0>>

\* What an int64 keeps of an exact value: the low 64 bits.
Int64(x) == <<x[1], x[2], x[3], x[4], 0, 0>>

\* The top bit of a limb, which a shift by one carries into the next limb.
TopBit(l) == l \div (Limb \div 2)

\* x << 1, exactly for x below 2^95.
Double(x) ==
  <<(2 * x[1]) % Limb,
    ((2 * x[2]) % Limb) + TopBit(x[1]),
    ((2 * x[3]) % Limb) + TopBit(x[2]),
    ((2 * x[4]) % Limb) + TopBit(x[3]),
    ((2 * x[5]) % Limb) + TopBit(x[4]),
    ((2 * x[6]) % Limb) + TopBit(x[5])>>

\* x << 16: every limb moves up by one.
ShiftLimb(x) == <<0, x[1], x[2], x[3], x[4], x[5]>>

RECURSIVE ShiftLeft(_, _)
\* x << k, exactly for x below 2^(96 - k): whole limbs first, then bit by bit.
ShiftLeft(x, k) ==
  IF k = 0 THEN x
  ELSE IF k >= 16 THEN ShiftLeft(ShiftLimb(x), k - 16)
  ELSE ShiftLeft(Double(x), k - 1)

RECURSIVE Carry(_, _, _)
\* The carry out of limb i of x + y.
Carry(x, y, i) ==
  IF i = 0 THEN 0 ELSE (x[i] + y[i] + Carry(x, y, i - 1)) \div Limb

\* x + y, exactly for a sum below 2^96.
AddLimbs(x, y) ==
  <<(x[1] + y[1]) % Limb,
    (x[2] + y[2] + Carry(x, y, 1)) % Limb,
    (x[3] + y[3] + Carry(x, y, 2)) % Limb,
    (x[4] + y[4] + Carry(x, y, 3)) % Limb,
    (x[5] + y[5] + Carry(x, y, 4)) % Limb,
    (x[6] + y[6] + Carry(x, y, 5)) % Limb>>

\* 2^a seconds in nanoseconds, exactly: 1e9 shifted left by a.
ExactSeconds(a) == ShiftLeft(Limbs(Second), a)

\* (1 << attempt) * time.Second as an int64: the low 64 bits of the exact
\* product, and in Go an int64 shifted by 64 or more is 0.
ShiftedSecond(a) ==
  IF a >= 16 * Int64Limbs THEN Limbs(0) ELSE Int64(ExactSeconds(a))

\* backoffDuration := jitter + ((1 << attempt) * time.Second), an int64.
BackoffDuration(a, j) == Int64(AddLimbs(Limbs(j), ShiftedSecond(a)))

\* The int64 is negative.
Negative(x) == x[Int64Limbs] >= Limb \div 2

\* x < y for exact values.
Less(x, y) ==
  \E i \in 1..WideLimbs :
    /\ x[i] < y[i]
    /\ \A k \in (i + 1)..WideLimbs : x[k] = y[k]

\* reconnect's for loop seen for its arithmetic alone, on a server that
\* refuses every dial and a client whose maxReconnectAttempts is
\* MaxBackoffAttempt: the loop is entered with attempt 0 and a jitter.
InitBackoff ==
  /\ InitClient
  /\ attempt = 0 /\ jitter \in JitterSamples /\ backoffDuration = <<>>
  /\ onReconnect = FALSE
  /\ InitPeers

backoffFrame == <<hookVars, reactorVars, runVars, connVars, wg, chanVars, lockVars, wVars,
                  rVars, cpc, creq, callers, writeHist, readHist>>

\* backoffDuration := jitter + ((1 << attempt) * time.Second);
\* timer.Reset(backoffDuration).
TimerReset ==
  /\ backoffDuration = <<>>
  /\ backoffDuration' = BackoffDuration(attempt, jitter)
  /\ UNCHANGED <<backoffFrame, attempt, jitter>>

\* The dial fails: attempt++, and the next round draws its jitter.
NextAttempt ==
  /\ backoffDuration # <<>>
  /\ attempt < MaxBackoffAttempt
  /\ attempt' = attempt + 1
  /\ jitter' \in JitterSamples
  /\ backoffDuration' = <<>>
  /\ UNCHANGED backoffFrame

NextBackoff == TimerReset \/ NextAttempt

SpecBackoff == InitBackoff /\ [][NextBackoff]_vars

\* ---- evidence Reactor (unnamed/part_000) ---------------------------------
\* processPeerUpdates, OnStop and one broadcastEvidenceLoop goroutine per
\* started loop.  Every section under r.mtx is one step.

\* The variables of the WebSocket client, which the reactor does not touch.
clientState == <<backoffVars, hookVars, runVars, connVars, wg, chanVars,
                 lockVars, wVars, rVars, cVars, callers, writeHist, readHist>>

\* BaseService.IsRunning: started and not stopped.
IsRunning == reactorState = "running"

\* The loops whose closer is in r.peerRoutines.
Registered == {peerRoutines[p] : p \in Peers} \ {0}

\* BaseService.Start calling OnStart: go r.processPeerUpdates(ctx).
OnStart ==
  /\ reactorState = "new"
  /\ reactorState' = "running"
  /\ updpc' = "select"
  /\ UNCHANGED <<clientState, reactorCtxDone, peerRoutines, peerWG, loops,
                 onStopPc, lastUpdate, updates>>

\* The context given to OnStart is cancelled.
ReactorCancel ==
  /\ reactorState # "new" /\ ~reactorCtxDone
  /\ reactorCtxDone' = TRUE
  /\ UNCHANGED <<clientState, reactorState, peerRoutines, peerWG, loops, updpc,
                 onStopPc, lastUpdate, updates>>

\* A loop for the peer can be started: the map has no closer for it.
NeedsLoop(p) == peerRoutines[p] = 0

\* A processPeerUpdate that starts a loop without asking IsRunning.
PeerUpUnchecked(p) ==
  /\ updpc = "select"
  /\ updates < MaxUpdates
  /\ NeedsLoop(p) => Len(loops) < MaxLoops
  /\ lastUpdate' = [lastUpdate EXCEPT ![p] = "up"]
  /\ updates' = updates + 1
  /\ IF NeedsLoop(p)
       THEN /\ loops' = Append(loops, [peer |-> p, pc |-> "run",
                                       closed |-> FALSE])
            /\ peerRoutines' = [peerRoutines EXCEPT ![p] = Len(loops) + 1]
            /\ peerWG' = peerWG + 1
       ELSE UNCHANGED <<loops, peerRoutines, peerWG>>
  /\ UNCHANGED <<clientState, reactorState, reactorCtxDone, updpc, onStopPc>>

\* processPeerUpdates receives an update, processPeerUpdate with
\* PeerStatusUp: nothing when the reactor is not running or the map has a
\* closer for the peer; else a new closer in the map, peerWG.Add(1) and
\* go r.broadcastEvidenceLoop.
PeerUp(p) ==
  /\ updpc = "select"
  /\ updates < MaxUpdates
  /\ (IsRunning /\ NeedsLoop(p)) => Len(loops) < MaxLoops
  /\ lastUpdate' = [lastUpdate EXCEPT ![p] = "up"]
  /\ updates' = updates + 1
  /\ IF IsRunning /\ NeedsLoop(p)
       THEN /\ loops' = Append(loops, [peer |-> p, pc |-> "run",
                                       closed |-> FALSE])
            /\ peerRoutines' = [peerRoutines EXCEPT ![p] = Len(loops) + 1]
            /\ peerWG' = peerWG + 1
       ELSE UNCHANGED <<loops, peerRoutines, peerWG>>
  /\ UNCHANGED <<clientState, reactorState, reactorCtxDone, updpc, onStopPc>>

\* processPeerUpdate with PeerStatusDown: closer.Close() when the map has a
\* closer for the peer.
PeerDown(p) ==
  /\ updpc = "select"
  /\ updates < MaxUpdates
  /\ lastUpdate' = [lastUpdate EXCEPT ![p] = "down"]
  /\ updates' = updates + 1
  /\ IF peerRoutines[p] # 0
       THEN loops' = [loops EXCEPT ![peerRoutines[p]].closed = TRUE]
       ELSE UNCHANGED loops
  /\ UNCHANGED <<clientState, reactorState, reactorCtxDone, peerRoutines,
                 peerWG, updpc, onStopPc>>

\* processPeerUpdates, case <-ctx.Done(): return.
UpdatesCtxDone ==
  /\ updpc = "select"
  /\ reactorCtxDone
  /\ updpc' = "done"
  /\ UNCHANGED <<clientState, reactorState, reactorCtxDone, peerRoutines,
                 peerWG, loops, onStopPc, lastUpdate, updates>>

\* broadcastEvidenceLoop, case <-closer.Done() of either select: return.
LoopCloserDone(i) ==
  /\ loops[i].pc = "run"
  /\ loops[i].closed
  /\ loops' = [loops EXCEPT ![i].pc = "defer"]
  /\ UNCHANGED <<clientState, reactorState, reactorCtxDone, peerRoutines,
                 peerWG, updpc, onStopPc, lastUpdate, updates>>

\* broadcastEvidenceLoop, case <-ctx.Done() (or Send returning the context's
\* error): return.
LoopCtxDone(i) ==
  /\ loops[i].pc = "run"
  /\ reactorCtxDone
  /\ loops' = [loops EXCEPT ![i].pc = "defer"]
  /\ UNCHANGED <<clientState, reactorState, reactorCtxDone, peerRoutines,
                 peerWG, updpc, onStopPc, lastUpdate, updates>>

\* The deferred block, under r.mtx: delete(r.peerRoutines, peerID).
LoopDelete(i) ==
  /\ loops[i].pc = "defer"
  /\ peerRoutines' = [peerRoutines EXCEPT ![loops[i].peer] = 0]
  /\ loops' = [loops EXCEPT ![i].pc = "deleted"]
  /\ UNCHANGED <<clientState, reactorState, reactorCtxDone, peerWG, updpc,
                 onStopPc, lastUpdate, updates>>

\* The deferred block: r.peerWG.Done(); the goroutine ends.
LoopDone(i) ==
  /\ loops[i].pc = "deleted"
  /\ peerWG' = peerWG - 1
  /\ loops' = [loops EXCEPT ![i].pc = "done"]
  /\ UNCHANGED <<clientState, reactorState, reactorCtxDone, peerRoutines,
                 updpc, onStopPc, lastUpdate, updates>>

\* BaseService.Stop: the service is marked stopped, then OnStop is called.
ReactorStop ==
  /\ reactorState = "running"
  /\ reactorState' = "stopped"
  /\ onStopPc' = "close"
  /\ UNCHANGED <<clientState, reactorCtxDone, peerRoutines, peerWG, loops,
                 updpc, lastUpdate, updates>>

\* OnStop, under r.mtx: c.Close() for every closer in r.peerRoutines.
OnStopClose ==
  /\ onStopPc = "close"
  /\ loops' = [i \in 1..Len(loops) |->
                 IF i \in Registered
                   THEN [loops[i] EXCEPT !.closed = TRUE] ELSE loops[i]]
  /\ onStopPc' = "wait"
  /\ UNCHANGED <<clientState, reactorState, reactorCtxDone, peerRoutines,
                 peerWG, updpc, lastUpdate, updates>>

\* OnStop: r.peerWG.Wait() returns, r.evpool.Close(); OnStop returns.
OnStopWait ==
  /\ onStopPc = "wait"
  /\ peerWG = 0
  /\ onStopPc' = "done"
  /\ UNCHANGED <<clientState, reactorState, reactorCtxDone, peerRoutines,
                 peerWG, loops, updpc, lastUpdate, updates>>

NextReactor ==
  \/ OnStart \/ ReactorCancel
  \/ \E p \in Peers : PeerUp(p) \/ PeerDown(p)
  \/ UpdatesCtxDone
  \/ \E i \in 1..Len(loops) :
       LoopCloserDone(i) \/ LoopCtxDone(i) \/ LoopDelete(i) \/ LoopDone(i)
  \/ ReactorStop \/ OnStopClose \/ OnStopWait

SpecReactor == Init /\ [][NextReactor]_vars

\* ---- properties ----------------------------------------------------------

\* The coordinator is past c.wg.Wait() and not yet back at its outer select:
\* it redials, drains, replays the backlog, starts the workers or stops.
CoordinatorBusy ==
  cpc \in {"reconnect", "backoff", "dial", "drain", "backlog", "pbWrite",
           "pbEmit", "pbRequeue", "start", "stop", "stopWait"}

WriterAlive == wpc # "done"
ReaderAlive == rpc # "done"

\* C1: the wait group counts exactly the live workers (at most one writer and
\* one reader), and while the coordinator redials, replays the backlog or
\* starts a worker pair both workers of the earlier generation have exited, so
\* no worker reads or writes a handle once the coordinator is reconnecting.
C1_OneGenerationAtATime ==
  /\ wg = (IF WriterAlive THEN 1 ELSE 0) + (IF ReaderAlive THEN 1 ELSE 0)
  /\ CoordinatorBusy => ~WriterAlive /\ ~ReaderAlive

\* C1 witness: the coordinator redials for the second time, after the
\* generation it started on the redialed handle has failed and exited.
C1_Witness == cpc = "dial" /\ conn = 2 /\ closedConns = {1, 2} /\ wg = 0

\* The hypotheses of recovery no longer hold: the context is cancelled, the
\* client is stopped (also by exhausted redials), or the replay of the backlog
\* on the new handle has failed.
RecoveryOff == ctxDone \/ ~running \/ cpc = "pbEmit"

\* C2: a worker that is sending its failure signal is eventually followed by
\* a new worker generation (the writer is back at its select, the reader back
\* at ReadMessage, which only startReadWriteRoutines brings about), unless
\* the client is cancelled or stopped or the backlog replay fails.
C2_Recovery ==
  /\ (wpc \in {"emit", "pingEmit"}) ~> (wpc = "select" \/ RecoveryOff)
  /\ (rpc = "emit") ~> (rpc = "read" \/ RecoveryOff)

\* C2 witness: a request failed, went to the backlog, was replayed on the
\* redialed handle, and the new generation runs on it.
C2_Witness ==
  /\ conn = 2 /\ replay # <<>> /\ written = replay
  /\ wpc = "select" /\ rpc = "read" /\ cpc = "select"
  /\ ~ctxDone /\ running

Range(q) == {q[i] : i \in 1..Len(q)}

\* The position of request p in sequence q (0 when it is not there).
Pos(q, p) == IF p \in Range(q) THEN CHOOSE i \in 1..Len(q) : q[i] = p ELSE 0

\* The requests a goroutine has in hand: the write worker between taking one
\* and writing or saving it, the coordinator while it replays one.
InHand == Range(wreq) \cup Range(creq)

\* C3: while the client is neither stopped nor cancelled, every request the
\* write worker received has been written, is in the hand of the write worker
\* or of the coordinator, or is in the backlog.
C3_NoAcceptedRequestLost ==
  (running /\ ~ctxDone) =>
    \A p \in Range(accepted) :
      p \in Range(written) \/ p \in InHand \/ p \in Range(backlog)

\* C3 witness: of two accepted requests the first was written and the second,
\* whose write failed, waits in the backlog of the running client.
C3_Witness ==
  /\ running /\ ~ctxDone
  /\ Len(accepted) = 2
  /\ written = <<accepted[1]>>
  /\ backlog = <<accepted[2]>>

\* C4: no request is written twice, and a written request is neither in the
\* backlog nor in any goroutine's hand (where it would be written again).
C4_NoRequestDuplicated ==
  /\ \A i, j \in 1..Len(written) : written[i] = written[j] => i = j
  /\ \A p \in Range(written) : p \notin Range(backlog) /\ p \notin InHand

\* C4 witness: a request went through a failed write, the backlog and a
\* successful replay, and the backlog is empty again.
C4_Witness ==
  /\ replay # <<>> /\ written = replay
  /\ backlog = <<>> /\ cpc = "start"

\* C5: when a handle was dialed with a request in the backlog, nothing but
\* that request is the first frame written on the handle, and workers run on
\* the handle only after it was written.
C5_BacklogFirstOnNewConn ==
  replay # <<>> =>
    /\ firstFrame \in {NoFrame, ReqFrame(replay[1])}
    /\ (WriterAlive \/ ReaderAlive) => firstFrame = ReqFrame(replay[1])

\* C5 witness: the backlog request was the first frame of the redialed
\* handle, and the new write worker has written another request after it.
C5_Witness ==
  /\ replay # <<>> /\ firstFrame = ReqFrame(replay[1])
  /\ Len(written) = 2 /\ written[1] = replay[1]
  /\ WriterAlive

\* C6: the requests are written in the order the write worker received them.
C6_WrittenInAcceptedOrder ==
  \A i, j \in 1..Len(written) :
    i < j => Pos(accepted, written[i]) < Pos(accepted, written[j])

\* C6 witness: two requests written in order, the first of them by the
\* coordinator's replay after its first write failed.
C6_Witness ==
  /\ Len(written) = 2 /\ written = accepted
  /\ replay = <<accepted[1]>> /\ conn = 2

\* C7: the backlog holds at most one request, it is empty while a write worker
\* runs up to its push, and it is empty when the coordinator requeues: neither
\* send on the backlog channel blocks.
C7_BacklogNeverBlocks ==
  /\ Len(backlog) <= BacklogCap
  /\ wpc \in {"select", "write", "emit", "push", "pingEmit"} => backlog = <<>>
  /\ cpc \in {"pbWrite", "pbEmit", "pbRequeue"} => backlog = <<>>

\* C7 witness: the write worker of the second generation is at its push, the
\* first generation having already used the backlog once.
C7_Witness == wpc = "push" /\ conn = 2 /\ replay # <<>> /\ backlog = <<>>

\* What a request that went into the client leaves behind.
Traces(p) ==
  p \in Range(accepted) \/ p \in Range(written) \/ p \in Range(backlog)
    \/ p \in InHand

\* Everything of the client but the callers' own state.
clientVars == <<runVars, connVars, wg, chanVars, lockVars, wVars, rVars,
                cVars, writeHist, readHist>>

\* C8: Send has returned nil only for a request the write worker took; a
\* request whose Send returned the context's error was never handed over, is
\* written nowhere and is not in the backlog; and the return with the error
\* changes nothing of the client.
C8_SendResult ==
  /\ [](\A p \in Callers :
          /\ callers[p].pc = "ok" => p \in Range(accepted)
          /\ callers[p].pc \in {"idle", "send", "err"} => ~Traces(p))
  /\ [][\A p \in Callers :
          (callers[p].pc = "send" /\ callers'[p].pc = "err")
            => UNCHANGED clientVars]_vars

\* C8 witness: one Send gave up with the context's error while the write
\* worker was busy failing, the other Send returned nil and its request was
\* written.
C8_Witness ==
  \E p, q \in Callers :
    /\ callers[p].pc = "err" /\ callers[q].pc = "ok"
    /\ written = <<q>> /\ accepted = <<q>>

\* nextRequestID has returned to caller p.
Allocated(p) == callers[p].pc \in {"send", "ok", "err"}

\* C9: the identifiers nextRequestID has returned are pairwise distinct and
\* below c.nextReqID, each return is above every identifier returned before,
\* and the requests the write worker took carry distinct identifiers (two
\* calls are two requests).
C9_FreshIncreasingIDs ==
  /\ [](\A p, q \in Callers :
          /\ (Allocated(p) /\ Allocated(q) /\ p # q)
               => callers[p].id # callers[q].id
          /\ Allocated(p) => callers[p].id < nextReqID)
  /\ [][\A p \in Callers :
          (callers[p].pc = "read" /\ callers'[p].pc = "send")
            => \A q \in Callers \ {p} :
                 Allocated(q) => callers[q].id < callers'[p].id]_vars

\* C9 witness: two concurrent calls were both taken and written, with the
\* identifiers 0 and 1.
C9_Witness ==
  /\ Len(written) = 2
  /\ {callers[p].id : p \in Range(written)} = {0, 1}

\* Responses reach the consumer in the order of reading, none twice, and
\* only frames that passed both checks.
DeliveredInOrder ==
  /\ \A i, j \in 1..Len(delivered) : i < j => delivered[i] < delivered[j]
  /\ \A i \in Range(delivered) : readLog[i].kind = "ok"

\* C10 as stated: in order, and no valid frame is left out (each is
\* delivered, or is the one in the read worker's hand).
C10_OnlyInvalidOmitted ==
  /\ DeliveredInOrder
  /\ \A i \in 1..Len(readLog) :
       readLog[i].kind = "ok" => i \in Range(delivered) \/ rresp = <<i>>

\* C10 amended: in order, and a valid frame is left out only when the context
\* was cancelled while its delivery was pending, and then it is the last
\* frame read on that handle.
C10_DeliveredInReadOrder ==
  /\ DeliveredInOrder
  /\ \A i \in 1..Len(readLog) :
       readLog[i].kind = "ok" =>
         \/ i \in Range(delivered)
         \/ rresp = <<i>>
         \/ /\ ctxDone
            /\ \A j \in 1..Len(readLog) :
                 j > i => readLog[j].conn # readLog[i].conn

\* C10 witness: two valid frames read on one handle, both delivered.
C10_Witness ==
  /\ delivered = <<1, 2>>
  /\ readLog[1].conn = readLog[2].conn

\* IsActive(): c.IsRunning() && !c.IsReconnecting().
IsActive == running /\ ~reconnecting

\* reconnect has returned its error: the failed dials of this redial loop
\* (attempt counts them) went past maxReconnectAttempts.
Exhausted == attempt > MaxReconnectAttempts

AllExited == ~WriterAlive /\ ~ReaderAlive /\ cpc = "done"

\* C12 as stated: once the context is cancelled, the write worker, the read
\* worker and the coordinator all eventually return.
C12_AllTerminateAfterCancel == ctxDone ~> AllExited

\* A call of Stop is between RunState.Stop and close(c.ResponsesCh).
Closing == (IF spc = "wait" THEN 1 ELSE 0) + (IF cpc = "stopWait" THEN 1 ELSE 0)

\* C13 as stated: ResponsesCh is closed at most once (a Stop that is about to
\* close it finds it open, and no two are about to), it is closed only with
\* both workers finished, and no read worker is at its send on ResponsesCh
\* once the channel is closed.
C13_ClosedOnceNoLateDelivery ==
  /\ [](Closing <= 1 /\ (Closing = 1 => ~responsesClosed))
  /\ [][(~responsesClosed /\ responsesClosed') => wg = 0]_vars
  /\ [](responsesClosed => rpc \notin {"deliver", "panic"})

\* The coordinator is in reconnect's for loop: it waits for the backoff timer
\* or dials.
InRedialLoop == cpc \in {"backoff", "dial"}

\* C14: c.reconnecting is true exactly while the coordinator is in the redial
\* loop, where both workers have exited, and false everywhere else, also
\* after the loop ended by a dial, by exhaustion or by cancellation; it
\* changes only in a step of the coordinator that enters or leaves the loop;
\* and IsActive() is false all through the redial.
C14_ReconnectingFlag ==
  /\ [](reconnecting <=> InRedialLoop)
  /\ [](reconnecting => ~WriterAlive /\ ~ReaderAlive)
  /\ [](InRedialLoop => ~IsActive)
  /\ [][reconnecting' # reconnecting =>
          \/ cpc = "reconnect" /\ cpc' = "backoff"
          \/ InRedialLoop /\ cpc' \in {"drain", "stop"}]_vars

\* C14 witness: the running client is at its second dial of a redial loop,
\* the first having failed, and reports itself as reconnecting.
C14_Witness ==
  /\ reconnecting /\ cpc = "dial" /\ attempt = 1
  /\ running /\ wg = 0

\* C15 as stated: once processBacklog has returned its error the client is
\* stopped and the coordinator only stops or has ended: it neither waits for
\* a new failure signal nor redials nor starts workers.
C15_ReplayFailureStopsClient ==
  (replayFailed /\ cpc \notin {"pbEmit", "pbRequeue"}) =>
    /\ cpc \in {"stop", "stopWait", "done"}
    /\ cpc # "stop" => ~running

\* C15 amended: a failed replay skips the worker restart and puts the request
\* back into the backlog, and it does trigger a new cycle: processBacklog sends
\* a failure signal (the channel is empty then, the send does not block), the
\* client is left running, the coordinator returns to its outer select with
\* the signal pending, and unless the context is cancelled it redials again.
C15_ReplayFailureRetries ==
  /\ [](cpc = "pbEmit" => reconnectAfter = 0)
  /\ [](cpc = "pbRequeue" => reconnectAfter = 1 /\ backlog = <<>>)
  /\ [][(cpc = "pbRequeue" /\ cpc' # cpc) =>
          /\ cpc' = "select" /\ backlog' = creq /\ reconnectAfter' = 1
          /\ wg' = 0 /\ ~WriterAlive' /\ ~ReaderAlive'
          /\ running' = running]_vars
  /\ (cpc = "pbRequeue") ~> (InRedialLoop \/ ctxDone)

\* C15 witness: after a failed replay on the redialed handle the running
\* client is dialing again, the request still in the backlog.
C15_Witness ==
  /\ replayFailed /\ cpc = "dial" /\ conn = 2
  /\ running /\ ~ctxDone

\* The int64 d is a delay of at least 2^a seconds and less than 2^a + 1.
InBackoffRange(d, a) ==
  /\ ~Negative(d)
  /\ ~Less(d, ExactSeconds(a))
  /\ Less(d, AddLimbs(ExactSeconds(a), Limbs(Second)))

\* C16 as stated: for every attempt k the configured maximum allows, the
\* backoff set on the timer before that attempt's dial is a delay in
\* [2^k, 2^k + 1) seconds.
C16_BackoffInRange ==
  backoffDuration # <<>> => InBackoffRange(backoffDuration, attempt)

\* The handles the successful dials have returned so far: Start's dial gave
\* handle 1, each successful redial the next number.
Dialed == 1..conn

\* C17 as stated: a handle is closed before the next dial replaces it, and
\* once the coordinator and both workers have returned no handle is open.
C17_EveryHandleClosed ==
  /\ \A h \in Dialed : h # conn => h \in closedConns
  /\ AllExited => Dialed \subseteq closedConns

\* C18 as stated: when ReadMessage returns an error, the read worker returns
\* without more ado only for the close frame with the normal-closure code;
\* for every other kind of error it closes readRoutineQuit and goes on to send
\* the failure signal, after which it returns.
C18_ReadFailureEscalates ==
  /\ [][(rpc = "read" /\ rerr' # "none") =>
          IF rerr' = "normal"
            THEN rpc' = "defer" /\ UNCHANGED <<readRoutineQuit, reconnectAfter>>
            ELSE rpc' = "emit" /\ readRoutineQuit']_vars
  /\ [][(rpc = "emit" /\ rpc' # rpc) =>
          rpc' = "defer" /\ reconnectAfter' = reconnectAfter + 1]_vars

\* C19: a request whose write fails stays in the worker's hand while the
\* worker sends one failure signal, then goes into the backlog (nothing else
\* does), and the worker runs its deferred block and returns; a failed ping
\* leaves the backlog and sentLastPingAt as they are, the worker sends one
\* failure signal and returns; from the failure on the worker takes no request.
C19_FailedWriteEndsGeneration ==
  /\ [][(wpc = "write" /\ wpc' # wpc /\ written' = written) =>
          /\ wpc' = "emit" /\ wreq' = wreq
          /\ UNCHANGED <<backlog, reconnectAfter>>]_vars
  /\ [][(wpc = "emit" /\ wpc' # wpc) =>
          /\ wpc' = "push" /\ wreq' = wreq
          /\ reconnectAfter' = reconnectAfter + 1
          /\ backlog' = backlog]_vars
  /\ [][(wpc = "push" /\ wpc' # wpc) =>
          /\ wpc' = "defer"
          /\ backlog' = wreq /\ Len(wreq) = 1
          /\ reconnectAfter' = reconnectAfter]_vars
  /\ [][(wpc = "select" /\ wpc' = "pingEmit") =>
          UNCHANGED <<backlog, reconnectAfter, sentLastPingAt>>]_vars
  /\ [][(wpc = "pingEmit" /\ wpc' # wpc) =>
          /\ wpc' = "defer"
          /\ reconnectAfter' = reconnectAfter + 1
          /\ UNCHANGED <<backlog, sentLastPingAt>>]_vars
  /\ [][(wpc \in {"emit", "push", "pingEmit", "defer"}) =>
          accepted' = accepted]_vars
  /\ [][(wpc = "defer") => wpc' \in {"defer", "done"}]_vars

\* C19 witness: the write of the second request failed; the worker has sent
\* its signal, left exactly that request in the backlog and returned, with
\* the time of the one ping it had sent untouched.
C19_Witness ==
  /\ wpc = "done" /\ Len(accepted) = 2
  /\ written = <<accepted[1]>> /\ backlog = <<accepted[2]>>
  /\ reconnectAfter = 1 /\ sentLastPingAt = 1 /\ conn = 1

\* C20 as stated: a worker that is at its send of the failure signal gets
\* past it, whatever is pending on the channel and whether or not the
\* coordinator still receives: the writer goes on to its push or its deferred
\* block, the reader to its deferred block.
C20_EmitNeverBlocks ==
  /\ (wpc \in {"emit", "pingEmit"}) ~> (wpc \in {"push", "defer", "done"})
  /\ (rpc = "emit") ~> (rpc \in {"defer", "done"})

\* A generation in good health: both workers run and neither has failed.
Healthy == wpc \in {"select", "write"} /\ rpc \in {"read", "deliver"}

\* C21: the coordinator takes at most one failure signal from its outer
\* select per handle, so a generation makes it redial once; a worker pair is
\* started only with the signal channel empty and the earlier workers gone,
\* and while a generation is in good health no signal is queued and the
\* coordinator is not redialing (it waits at its select, or has returned on
\* cancellation).
C21_OneCyclePerGeneration ==
  /\ [](received <= 1)
  /\ [](cpc = "start" => reconnectAfter = 0 /\ wg = 0)
  /\ [][(cpc = "start" /\ cpc' # cpc) =>
          reconnectAfter' = 0 /\ received' = 0 /\ wg' = 2]_vars
  /\ [](Healthy => reconnectAfter = 0 /\ cpc \in {"select", "done"})

\* C21 witness: both workers of the first generation have reported; the
\* second signal is still queued when the redial has succeeded, and the drain
\* loop is about to take it.
C21_Witness ==
  /\ cpc = "drain" /\ reconnectAfter = 1 /\ conn = 2 /\ received = 0
  /\ wg = 0 /\ ~ctxDone

\* ReadMessage has just returned a data frame that json.Unmarshal or
\* validateResponseID rejects.
SkippedFrameRead ==
  /\ Len(readLog') = Len(readLog) + 1
  /\ readLog'[Len(readLog')].kind \in {"malformed", "badid"}

\* C22: reading a frame that fails to deserialize or whose identifier fails
\* validation changes nothing but the record of frames read: nothing is
\* delivered, no failure signal is sent, the reader-failed latch, the backlog,
\* the handle and the wait group are as before, and the read worker is back at
\* ReadMessage on the same handle; such a frame is never delivered later.
C22_BadFrameSkipped ==
  /\ [][SkippedFrameRead =>
          /\ rpc = "read" /\ rpc' = "read"
          /\ readLog'[Len(readLog')].conn = conn
          /\ UNCHANGED <<delivered, rresp, rerr, reconnectAfter,
                         readRoutineQuit, backlog, responsesClosed, connVars,
                         wg, running, reconnecting, wVars, cVars>>]_vars
  /\ [](\A i \in 1..Len(delivered) :
          readLog[delivered[i]].kind \notin {"malformed", "badid"})
  /\ [](\A i \in 1..Len(readLog) :
          (rresp = <<i>>) => readLog[i].kind = "ok")

\* C22 witness: a rejected frame was read, and the next frame read on the
\* same handle was delivered, with no signal sent and the latch open.
C22_Witness ==
  /\ Len(readLog) = 2
  /\ readLog[1].kind \in {"malformed", "badid"} /\ readLog[2].kind = "ok"
  /\ readLog[1].conn = readLog[2].conn
  /\ delivered = <<2>>
  /\ reconnectAfter = 0 /\ ~readRoutineQuit /\ conn = 1 /\ wg = 2

\* The dial that reconnect is about to make is its n-th of this cycle.
DialNumber == attempt + 1

C24_CallbackAfterFlagCleared ==
  /\ started => Len(callbacks) = conn - 1
  /\ \A i \in 1..Len(callbacks) :
       callbacks[i].pc # "spawned" => ~callbacks[i].sawReconnecting
  /\ cpc \in {"return", "drain", "backlog", "start"} => ENABLED CoordinatorHook

\* A caller is blocked in Send, its request ready for the writer's select.
RequestWaiting == \E p \in Callers : callers[p].pc = "send"

\* C25: once one worker of a generation has returned, the other returns too,
\* with no request, keepalive tick or cancellation needed: a writer does not
\* stay on without its reader, nor a reader without its writer.  States in
\* which the context is cancelled or a request waits to be taken are left
\* aside, the claim asking for the retirement without them.
C25_RetiredAsUnit ==
  /\ (~ReaderAlive) ~> (~WriterAlive \/ ctxDone \/ RequestWaiting)
  /\ (~WriterAlive) ~> (~ReaderAlive \/ ctxDone \/ RequestWaiting)

\* The loops of peer p that are in their for loop.
Looping(p) == {i \in 1..Len(loops) : loops[i].peer = p /\ loops[i].pc = "run"}

\* The goroutines of peer p's loops that have not ended.
Alive(p) == {i \in 1..Len(loops) : loops[i].peer = p /\ loops[i].pc # "done"}

\* C26: while the reactor runs (and its context is not cancelled), a peer
\* whose last processed update is PeerStatusUp has a broadcast loop that is in
\* its for loop and whose closer is not closed, or, for as long as an earlier
\* loop of the peer is still on its way out, is yet to have one; and no peer
\* has two loops in their for loop at once.
C26_UpPeerHasLoop ==
  /\ \A p \in Peers :
       (IsRunning /\ ~reactorCtxDone /\ lastUpdate[p] = "up") =>
         \/ \E i \in Looping(p) : ~loops[i].closed
         \/ Alive(p) # {}
  /\ \A p \in Peers : Cardinality(Looping(p)) <= 1

\* OnStop has returned.
Stopped == onStopPc = "done"

\* C27: OnStop's closing step leaves every registered closer closed; OnStop
\* returns only when every started loop has run its deferred block to the
\* end; a peer update processed when the reactor is not running starts no
\* loop; so once OnStop has returned no loop is alive, now or later, and
\* r.peerRoutines is empty.
C27_StoppedMeansNoLoops ==
  /\ [][(onStopPc = "close" /\ onStopPc' = "wait") =>
          \A i \in Registered : loops'[i].closed]_vars
  /\ [][~IsRunning => Len(loops') = Len(loops)]_vars
  /\ [](Stopped =>
          /\ \A i \in 1..Len(loops) : loops[i].pc = "done"
          /\ peerWG = 0
          /\ \A p \in Peers : peerRoutines[p] = 0)

\* C27 witness: OnStop has closed the loop of peer 1 and has returned; a
\* PeerStatusUp for peer 2 was processed when the reactor was no longer
\* running (no loop was ever started for it).
C27_Witness ==
  /\ Stopped
  /\ Len(loops) = 1 /\ loops[1].peer = 1 /\ loops[1].closed
  /\ lastUpdate[1] = "up" /\ lastUpdate[2] = "up"
  /\ ~reactorCtxDone

====
